---- MODULE Spec2Model ----
(***************************************************************************)
(* Model of the downloader package of multy-loader: Downloader.Download,   *)
(* Cancel, updateProgress, broadcast, Subscribe, Unsubscribe and the file  *)
(* system calls Download makes (stat, create, write, remove, rename).      *)
(* One Download execution is one goroutine started by Handler.Download.    *)
(***************************************************************************)
EXTENDS Integers, Sequences, FiniteSets, TLC

\* ------------------------------------------------------------------ bounds
\* number of Download executions (goroutines) over the life of the process
MaxExecs == 2
\* number of chunks a response body is read in (one Read of the 32KB buffer)
MaxChunks == 2
\* number of Subscribe calls over the life of the process
MaxSubs == 2
\* capacity of a subscriber channel (make(chan Progress, 100)), scaled down
QueueCap == 2
\* number of Download executions in the runs that include the hub
HubExecs == 1
\* number of GetAllProgress and GetProgress calls over the life of the process
MaxReads == 1
\* length of the last path segment of a probed URL
MaxSegLen == 3
\* length of a name looksLikeID is called with
MaxNameLen == 3
\* goroutines that call the Downloader at the same time, and the calls they make
MaxGoroutines == 3
MaxCalls == 3

Execs == 1 .. MaxExecs
Chans == 1 .. MaxSubs
Goroutines == 1 .. MaxGoroutines

\* ------------------------------------------------------------------ inputs
\* config.FileEntry values a caller submits; fullPath stands for
\* filepath.Join(ExpandPath(rootDir), entry.Folder, entry.FileName)
Entries ==
  { [ID |-> "a", fullPath |-> "p", URL |-> "u1"],
    [ID |-> "b", fullPath |-> "p", URL |-> "u2"],
    [ID |-> "b", fullPath |-> "q", URL |-> "u2"] }

NoEntry == [ID |-> "", fullPath |-> "", URL |-> ""]

IDs == {"a", "b", "c"}
FinalPaths == {"p", "q"}

\* one temporary path for every destination
TmpPathShared(fullPath) == "p.tmp"

\* tmpPath := fullPath + ".tmp"
TmpPath(fullPath) == fullPath \o ".tmp"

AllPaths == FinalPaths \cup { TmpPath(p) : p \in FinalPaths }

\* ------------------------------------------------------------------ files
\* An inode is named by the execution whose os.Create made it; OldIno is the
\* file that is on disk under "p" before the process starts.
OldIno == MaxExecs + 1
Inodes == 1 .. (MaxExecs + 1)
OldContent == << <<"old", 1>> >>
Hole == <<"hole", 0>>

\* the body the server sends for a URL, chunk by chunk
Body(u) == [k \in 1 .. MaxChunks |-> <<u, k>>]

\* resp.ContentLength: "u1" is served with a Content-Length header, "u2"
\* without one (-1)
ContentLength(u) == IF u = "u1" THEN MaxChunks ELSE 0 - 1

\* file.Write(buf[:n]) at the descriptor's offset off (0-based): the bytes
\* between the end of the file and off read as zeroes
WriteAt(data, off, chunk) ==
  [k \in 1 .. (IF off + 1 > Len(data) THEN off + 1 ELSE Len(data)) |->
     IF k = off + 1 THEN chunk
     ELSE IF k <= Len(data) THEN data[k] ELSE Hole]

\* ------------------------------------------------------------------ Progress
NewProgress(entry) ==
  [FileID |-> entry.ID, FileName |-> entry.fullPath, Total |-> 0,
   Downloaded |-> 0, Percent |-> 0, Status |-> "downloading", Error |-> ""]

NoProgress ==
  [FileID |-> "", FileName |-> "", Total |-> 0,
   Downloaded |-> 0, Percent |-> 0, Status |-> "", Error |-> ""]

\* the closures Download passes to updateProgress
FnError(msg, p) == [p EXCEPT !.Status = "error", !.Error = msg]
FnTotal(total, p) == [p EXCEPT !.Total = total]
FnCancelled(p) == [p EXCEPT !.Status = "cancelled"]
FnChunk(downloaded, percent, p) ==
  [p EXCEPT !.Downloaded = downloaded, !.Percent = percent]
FnCompleted(downloaded, p) ==
  [p EXCEPT !.Status = "completed", !.Percent = 100, !.Downloaded = downloaded]

\* percent = float64(downloaded) / float64(total) * 100 when total > 0,
\* else 0; kept to whole percents
PercentOf(downloaded, total) ==
  IF total > 0 THEN (downloaded * 100) \div total ELSE 0

VARIABLES
  pc,         \* position of each Download execution
  entry,      \* its entry argument
  force,      \* its force argument (until the existence check has used it)
  ctxDone,    \* its context has been cancelled
  downloaded, \* its local downloaded, also the offset of its descriptor
  readErr,    \* err of its last resp.Body.Read: "nil", "EOF" or "err"
  errMsg,     \* the error it is about to record, or has returned unrecorded
  fd,         \* inode its open temporary file refers to (0: none)
  recs,       \* heap: the Progress value allocated by each execution
  progress,   \* d.progress: id -> execution whose Progress it points to (0: no key)
  cancelFns,  \* d.cancelFns: id -> execution whose cancel it holds (0: no key)
  dir,        \* file system: path -> inode (0: no such file)
  content,    \* file system: inode -> bytes
  listeners,  \* d.listeners: sequence of channels
  queue,      \* buffered values of each channel
  closed,     \* channel has been closed
  nchans,     \* channels made so far
  signalled,  \* history: Cancel signalled the execution while its record was downloading
  retry,      \* history: the call was made with force after its id's record was cancelled
  sent,       \* history: what was published while the channel was subscribed
  got,        \* history: what ProgressStream has received from the channel
  full,       \* history: some publish found the channel full
  result,     \* the pointers the last GetAllProgress or GetProgress call returned (0: no key)
  nreads,     \* GetAllProgress and GetProgress calls so far
  returned,   \* history: the records result pointed to when the call returned
  probeIn,    \* GetFileInfoFromURL: targetURL and what the server answers to HEAD and GET
  probeOut,   \* GetFileInfoFromURL: what it returned (NoResult before it has)
  nameIn,     \* looksLikeID: its argument
  nameOut,    \* looksLikeID: << its result >> (<< >> before it has returned)
  pos,         \* lock level: the call each goroutine is in and its position in it
  loop,       \* lock level: channels the range loop of broadcast has yet to visit
  target,     \* lock level: the ch argument of the goroutine's Unsubscribe
  mu,         \* d.mu
  listenerMu, \* d.listenerMu
  ncalls      \* lock level: calls started so far

vars == << pc, entry, force, ctxDone, downloaded, readErr, errMsg, fd,
           recs, progress, cancelFns, dir, content, listeners, queue, closed,
           nchans, signalled, retry, sent, got, full, result, nreads,
           returned, probeIn, probeOut, nameIn, nameOut,
           pos, loop, target, mu, listenerMu, ncalls >>

execVars == << pc, entry, force, downloaded, readErr, errMsg, fd, retry >>
storeVars == << recs, progress, cancelFns >>
fsVars == << dir, content >>
hubVars == << listeners, queue, closed, nchans, sent, got, full >>
readVars == << result, nreads, returned >>
\* what a step of a transfer, of Cancel or of the hub leaves alone
probeVars == << probeIn, probeOut >>
idVars == << nameIn, nameOut >>
lockVars == << pos, loop, target, mu, listenerMu, ncalls >>
otherVars == << readVars, probeVars, idVars, lockVars >>

\* ------------------------------------------------------------------ hub
IsListener(ls, ch) == \E i \in 1 .. Len(ls) : ls[i] = ch

\* broadcast putting the newest value at the head of the buffer
BroadcastNewestFirst(ls, q, p) ==
  [ch \in DOMAIN q |->
     IF IsListener(ls, ch) /\ Len(q[ch]) < QueueCap
     THEN << p >> \o q[ch] ELSE q[ch]]

\* broadcast leaving its loop at the first full channel
BroadcastStopsAtFull(ls, q, p) ==
  [ch \in DOMAIN q |->
     IF /\ IsListener(ls, ch)
        /\ \A i \in 1 .. Len(ls) :
             (\E j \in i .. Len(ls) : ls[j] = ch) => Len(q[ls[i]]) < QueueCap
     THEN Append(q[ch], p) ELSE q[ch]]

\* broadcast: a non-blocking send to every channel of d.listeners; a full
\* channel takes the default branch
Broadcast(ls, q, p) ==
  [ch \in DOMAIN q |->
     IF IsListener(ls, ch) /\ Len(q[ch]) < QueueCap
     THEN Append(q[ch], p) ELSE q[ch]]

\* the record d.progress holds under fileID
Stored(fileID) == recs[progress[fileID]]

\* updateProgress: under d.mu, if a record is stored under fileID, fn is
\* applied to it (p is the record after fn) and a copy of it is broadcast
\* (sent and full record, for each subscribed channel, what was published and
\* whether the channel was full then)
UpdateProgress(fileID, p) ==
  IF progress[fileID] # 0
  THEN /\ recs' = [recs EXCEPT ![progress[fileID]] = p]
       /\ queue' = Broadcast(listeners, queue, recs'[progress[fileID]])
       /\ sent' = [ch \in Chans |->
                     IF IsListener(listeners, ch)
                     THEN Append(sent[ch], recs'[progress[fileID]]) ELSE sent[ch]]
       /\ full' = [ch \in Chans |->
                     full[ch] \/ (IsListener(listeners, ch) /\ Len(queue[ch]) >= QueueCap)]
  ELSE UNCHANGED << recs, queue, sent, full >>

\* ------------------------------------------------------------------ file system calls
Exists(path) == dir[path] # 0

\* os.Remove(path); its error is ignored
Remove(d, path) == [d EXCEPT ![path] = 0]

\* a rename that unlinks old and installs nothing
RenameDropsFile(d, old, new) == [d EXCEPT ![old] = 0]

\* os.Rename(old, new) of an existing old path
RenameOver(d, old, new) == [d EXCEPT ![new] = d[old], ![old] = 0]

\* an inode with no name and no open descriptor is freed
Reclaim(c, d, f) ==
  [i \in DOMAIN c |->
     IF (\E p \in DOMAIN d : d[p] = i) \/ (\E e \in DOMAIN f : f[e] = i)
     THEN c[i] ELSE << >>]

\* file.Close() and os.Remove(tmpPath) of execution e
CloseAndRemove(e) ==
  /\ fd' = [fd EXCEPT ![e] = 0]
  /\ dir' = Remove(dir, TmpPath(entry[e].fullPath))
  /\ content' = Reclaim(content, dir', fd')

\* ------------------------------------------------------------------ Download
\* Handler.Download starts one goroutine per entry of the request
Download(e) ==
  /\ pc[e] = "idle"
  /\ IF e = 1 THEN TRUE ELSE pc[e - 1] # "idle"
  /\ \E f \in Entries, fr \in BOOLEAN :
       /\ entry' = [entry EXCEPT ![e] = f]
       /\ force' = [force EXCEPT ![e] = fr]
       /\ retry' = [retry EXCEPT ![e] =
                       fr /\ progress[f.ID] # 0
                          /\ recs[progress[f.ID]].Status = "cancelled"]
  /\ pc' = [pc EXCEPT ![e] = "start"]
  /\ UNCHANGED << ctxDone, downloaded, readErr, errMsg, fd, storeVars,
                  fsVars, hubVars, signalled >>
  /\ UNCHANGED otherVars

\* the existence check with the force flag inverted
SkipDownloadInverted(e) == force[e] /\ Exists(entry[e].fullPath)

\* the existence check: force is false and os.Stat(fullPath) succeeds
SkipDownload(e) == ~force[e] /\ Exists(entry[e].fullPath)

\* existence check, then MkdirAll
Start(e) ==
  /\ pc[e] = "start"
  /\ pc' = [pc EXCEPT ![e] = IF SkipDownload(e) THEN "done" ELSE "register"]
  /\ force' = [force EXCEPT ![e] = FALSE]
  /\ retry' = [retry EXCEPT ![e] = @ /\ ~SkipDownload(e)]
  /\ UNCHANGED << entry, ctxDone, downloaded, readErr, errMsg, fd,
                  storeVars, fsVars, hubVars, signalled >>
  /\ UNCHANGED otherVars

\* context.WithCancel, then under d.mu: store cancel and a fresh Progress
Register(e) ==
  /\ pc[e] = "register"
  /\ cancelFns' = [cancelFns EXCEPT ![entry[e].ID] = e]
  /\ progress' = [progress EXCEPT ![entry[e].ID] = e]
  /\ recs' = [recs EXCEPT ![e] = NewProgress(entry[e])]
  /\ pc' = [pc EXCEPT ![e] = "request"]
  /\ UNCHANGED << entry, retry, force, ctxDone, downloaded, readErr, errMsg, fd,
                  fsVars, hubVars, signalled >>
  /\ UNCHANGED otherVars

\* NewRequestWithContext, client.Do and the status check: a 200 response,
\* or the context's error once the context is cancelled
Request(e) ==
  /\ pc[e] = "request"
  /\ IF ctxDone[e]
     THEN /\ errMsg' = [errMsg EXCEPT ![e] = "context canceled"]
          /\ pc' = [pc EXCEPT ![e] = "fail"]
     ELSE /\ pc' = [pc EXCEPT ![e] = "create"]
          /\ UNCHANGED errMsg
  /\ UNCHANGED << entry, retry, force, ctxDone, downloaded, readErr, fd, storeVars,
                  fsVars, hubVars, signalled >>
  /\ UNCHANGED otherVars

\* os.Create(tmpPath): O_CREATE|O_TRUNC, so an existing file is emptied in
\* place and keeps its inode
Create(e) ==
  /\ pc[e] = "create"
  /\ LET tmp == TmpPath(entry[e].fullPath) IN
       IF Exists(tmp)
       THEN /\ content' = [content EXCEPT ![dir[tmp]] = << >>]
            /\ fd' = [fd EXCEPT ![e] = dir[tmp]]
            /\ UNCHANGED dir
       ELSE /\ dir' = [dir EXCEPT ![tmp] = e]
            /\ content' = [content EXCEPT ![e] = << >>]
            /\ fd' = [fd EXCEPT ![e] = e]
  /\ pc' = [pc EXCEPT ![e] = "setTotal"]
  /\ UNCHANGED << entry, retry, force, ctxDone, downloaded, readErr, errMsg, storeVars,
                  hubVars, signalled >>
  /\ UNCHANGED otherVars

\* d.updateProgress(entry.ID, p.Total = total)
SetTotal(e) ==
  /\ pc[e] = "setTotal"
  /\ UpdateProgress(entry[e].ID,
       FnTotal(ContentLength(entry[e].URL), Stored(entry[e].ID)))
  /\ pc' = [pc EXCEPT ![e] = "check"]
  /\ UNCHANGED << entry, retry, force, ctxDone, downloaded, readErr, errMsg, fd,
                  progress, cancelFns, fsVars, listeners, closed, nchans, got,
                  signalled >>
  /\ UNCHANGED otherVars

\* the select at the top of the copy loop
CtxObserved(e) == ctxDone[e]

\* top of the loop: on ctx.Done() close and remove the temporary file
Check(e) ==
  /\ pc[e] = "check"
  /\ IF CtxObserved(e)
     THEN /\ CloseAndRemove(e)
          /\ downloaded' = [downloaded EXCEPT ![e] = 0]
          /\ pc' = [pc EXCEPT ![e] = "cancelled"]
     ELSE /\ pc' = [pc EXCEPT ![e] = "read"]
          /\ UNCHANGED << fd, dir, content, downloaded >>
  /\ UNCHANGED << entry, retry, force, ctxDone, readErr, errMsg,
                  storeVars, hubVars, signalled >>
  /\ UNCHANGED otherVars

\* what resp.Body.Read returns when the transport does not fail: one chunk
\* (with io.EOF or without when it is the last one), or io.EOF alone
ReadOutcomes(e) ==
  LET left == MaxChunks - downloaded[e] IN
    (IF left = 0 THEN { [n |-> 0, err |-> "EOF"] } ELSE { [n |-> 1, err |-> "nil"] })
    \cup (IF left = 1 THEN { [n |-> 1, err |-> "EOF"] } ELSE { })

\* resp.Body.Read, then file.Write of what was read
ReadChunk(e) ==
  /\ pc[e] = "read"
  /\ \E r \in ReadOutcomes(e) :
       IF r.n > 0
       THEN /\ content' = [content EXCEPT ![fd[e]] =
                             WriteAt(@, downloaded[e], Body(entry[e].URL)[downloaded[e] + 1])]
            /\ downloaded' = [downloaded EXCEPT ![e] = @ + r.n]
            /\ readErr' = [readErr EXCEPT ![e] = r.err]
            /\ pc' = [pc EXCEPT ![e] = "progress"]
       ELSE /\ pc' = [pc EXCEPT ![e] = "rename"]
            /\ UNCHANGED << content, downloaded, readErr >>
  /\ UNCHANGED << entry, retry, force, ctxDone, errMsg, fd, dir, storeVars, hubVars,
                  signalled >>
  /\ UNCHANGED otherVars

\* resp.Body.Read on a cancelled context returns the context's error:
\* close and remove the temporary file
ReadCancelled(e) ==
  /\ pc[e] = "read"
  /\ ctxDone[e]
  /\ CloseAndRemove(e)
  /\ downloaded' = [downloaded EXCEPT ![e] = 0]
  /\ errMsg' = [errMsg EXCEPT ![e] = "context canceled"]
  /\ pc' = [pc EXCEPT ![e] = "fail"]
  /\ UNCHANGED << entry, retry, force, ctxDone, readErr, storeVars, hubVars, signalled >>
  /\ UNCHANGED otherVars

\* the per-chunk updateProgress, then the err tests at the end of the loop body
ChunkUpdate(e) ==
  /\ pc[e] = "progress"
  /\ UpdateProgress(entry[e].ID,
       FnChunk(downloaded[e],
               PercentOf(downloaded[e], ContentLength(entry[e].URL)),
               Stored(entry[e].ID)))
  /\ pc' = [pc EXCEPT ![e] = CASE readErr[e] = "EOF" -> "rename"
                               [] readErr[e] = "err" -> "readFail"
                               [] OTHER -> "check"]
  /\ readErr' = [readErr EXCEPT ![e] = "nil"]
  /\ UNCHANGED << entry, retry, force, ctxDone, downloaded, errMsg, fd,
                  progress, cancelFns, fsVars, listeners, closed, nchans, got,
                  signalled >>
  /\ UNCHANGED otherVars

\* file.Close and os.Rename(tmpPath, fullPath), which fails when there is no
\* temporary file
Rename(e) ==
  /\ pc[e] = "rename"
  /\ fd' = [fd EXCEPT ![e] = 0]
  /\ LET tmp == TmpPath(entry[e].fullPath) IN
       IF Exists(tmp)
       THEN /\ dir' = RenameOver(dir, tmp, entry[e].fullPath)
            /\ pc' = [pc EXCEPT ![e] = "complete"]
            /\ UNCHANGED << errMsg, downloaded >>
       ELSE /\ errMsg' = [errMsg EXCEPT ![e] = "rename failed"]
            /\ downloaded' = [downloaded EXCEPT ![e] = 0]
            /\ pc' = [pc EXCEPT ![e] = "renameFailed"]
            /\ UNCHANGED dir
  /\ content' = Reclaim(content, dir', fd')
  /\ UNCHANGED << entry, retry, force, ctxDone, readErr, storeVars, hubVars, signalled >>
  /\ UNCHANGED otherVars

\* os.Remove(tmpPath) after a failed rename
RemoveAfterRename(e) ==
  /\ pc[e] = "renameFailed"
  /\ dir' = Remove(dir, TmpPath(entry[e].fullPath))
  /\ content' = Reclaim(content, dir', fd)
  /\ pc' = [pc EXCEPT ![e] = "fail"]
  /\ UNCHANGED << entry, retry, force, ctxDone, downloaded, readErr, errMsg, fd,
                  storeVars, hubVars, signalled >>
  /\ UNCHANGED otherVars

\* d.updateProgress(entry.ID, completed)
Complete(e) ==
  /\ pc[e] = "complete"
  /\ UpdateProgress(entry[e].ID, FnCompleted(downloaded[e], Stored(entry[e].ID)))
  /\ downloaded' = [downloaded EXCEPT ![e] = 0]
  /\ pc' = [pc EXCEPT ![e] = "defer"]
  /\ UNCHANGED << entry, retry, force, ctxDone, readErr, errMsg, fd,
                  progress, cancelFns, fsVars, listeners, closed, nchans, got,
                  signalled >>
  /\ UNCHANGED otherVars

\* d.updateProgress(entry.ID, cancelled)
CancelledUpdate(e) ==
  /\ pc[e] = "cancelled"
  /\ UpdateProgress(entry[e].ID, FnCancelled(Stored(entry[e].ID)))
  /\ pc' = [pc EXCEPT ![e] = "defer"]
  /\ UNCHANGED << entry, retry, force, ctxDone, downloaded, readErr, errMsg, fd,
                  progress, cancelFns, fsVars, listeners, closed, nchans, got,
                  signalled >>
  /\ UNCHANGED otherVars

\* d.updateProgress(entry.ID, error) on any of the error paths
Fail(e) ==
  /\ pc[e] = "fail"
  /\ UpdateProgress(entry[e].ID, FnError(errMsg[e], Stored(entry[e].ID)))
  /\ errMsg' = [errMsg EXCEPT ![e] = ""]
  /\ pc' = [pc EXCEPT ![e] = "defer"]
  /\ UNCHANGED << entry, retry, force, ctxDone, downloaded, readErr, fd,
                  progress, cancelFns, fsVars, listeners, closed, nchans, got,
                  signalled >>
  /\ UNCHANGED otherVars

\* a deferred function that deletes the record as well as the handle
DeferredDropsRecord(e) ==
  /\ pc[e] = "defer"
  /\ cancelFns' = [cancelFns EXCEPT ![entry[e].ID] = 0]
  /\ progress' = [progress EXCEPT ![entry[e].ID] = 0]
  /\ ctxDone' = [ctxDone EXCEPT ![e] = FALSE]
  /\ signalled' = [signalled EXCEPT ![e] = FALSE]
  /\ retry' = [retry EXCEPT ![e] = FALSE]
  /\ pc' = [pc EXCEPT ![e] = "done"]
  /\ UNCHANGED << entry, force, downloaded, readErr, errMsg, fd,
                  recs, fsVars, hubVars >>
  /\ UNCHANGED otherVars

\* the deferred delete(d.cancelFns, entry.ID) as Download returns
Deferred(e) ==
  /\ pc[e] = "defer"
  /\ cancelFns' = [cancelFns EXCEPT ![entry[e].ID] = 0]
  /\ ctxDone' = [ctxDone EXCEPT ![e] = FALSE]
  /\ signalled' = [signalled EXCEPT ![e] = FALSE]
  /\ retry' = [retry EXCEPT ![e] = FALSE]
  /\ pc' = [pc EXCEPT ![e] = "done"]
  /\ UNCHANGED << entry, force, downloaded, readErr, errMsg, fd,
                  recs, progress, fsVars, hubVars >>
  /\ UNCHANGED otherVars

\* ------------------------------------------------------------------ I/O failures
\* os.MkdirAll fails: Download returns the error
MkdirFails(e) ==
  /\ pc[e] = "register"
  /\ pc' = [pc EXCEPT ![e] = "done"]
  /\ errMsg' = [errMsg EXCEPT ![e] = "failed to create directory"]
  /\ retry' = [retry EXCEPT ![e] = FALSE]
  /\ UNCHANGED << entry, force, ctxDone, downloaded, readErr, fd,
                  storeVars, fsVars, hubVars, signalled >>
  /\ UNCHANGED otherVars

\* NewRequestWithContext or client.Do fails, or the status is not 200
RequestFails(e) ==
  /\ pc[e] = "request"
  /\ \E m \in {"request failed", "bad status"} :
       errMsg' = [errMsg EXCEPT ![e] = m]
  /\ pc' = [pc EXCEPT ![e] = "fail"]
  /\ UNCHANGED << entry, retry, force, ctxDone, downloaded, readErr, fd, storeVars,
                  fsVars, hubVars, signalled >>
  /\ UNCHANGED otherVars

\* os.Create fails
CreateFails(e) ==
  /\ pc[e] = "create"
  /\ errMsg' = [errMsg EXCEPT ![e] = "create failed"]
  /\ pc' = [pc EXCEPT ![e] = "fail"]
  /\ UNCHANGED << entry, retry, force, ctxDone, downloaded, readErr, fd, storeVars,
                  fsVars, hubVars, signalled >>
  /\ UNCHANGED otherVars

\* resp.Body.Read returns no data and an error, or file.Write fails on the
\* data read: close and remove the temporary file
ReadOrWriteFails(e) ==
  /\ pc[e] = "read"
  /\ \E m \in {"read failed", "write failed"} :
       /\ m = "write failed" => downloaded[e] < MaxChunks
       /\ errMsg' = [errMsg EXCEPT ![e] = m]
  /\ CloseAndRemove(e)
  /\ downloaded' = [downloaded EXCEPT ![e] = 0]
  /\ pc' = [pc EXCEPT ![e] = "fail"]
  /\ UNCHANGED << entry, retry, force, ctxDone, readErr, storeVars, hubVars, signalled >>
  /\ UNCHANGED otherVars

\* resp.Body.Read returns a chunk together with an error other than io.EOF
ReadChunkWithError(e) ==
  /\ pc[e] = "read"
  /\ downloaded[e] < MaxChunks
  /\ content' = [content EXCEPT ![fd[e]] =
                   WriteAt(@, downloaded[e], Body(entry[e].URL)[downloaded[e] + 1])]
  /\ downloaded' = [downloaded EXCEPT ![e] = @ + 1]
  /\ readErr' = [readErr EXCEPT ![e] = "err"]
  /\ pc' = [pc EXCEPT ![e] = "progress"]
  /\ UNCHANGED << entry, retry, force, ctxDone, errMsg, fd, dir, storeVars, hubVars,
                  signalled >>
  /\ UNCHANGED otherVars

\* err != nil after the chunk was written and reported: close and remove
ReadFail(e) ==
  /\ pc[e] = "readFail"
  /\ CloseAndRemove(e)
  /\ downloaded' = [downloaded EXCEPT ![e] = 0]
  /\ errMsg' = [errMsg EXCEPT ![e] = "read failed"]
  /\ pc' = [pc EXCEPT ![e] = "fail"]
  /\ UNCHANGED << entry, retry, force, ctxDone, readErr, storeVars, hubVars, signalled >>
  /\ UNCHANGED otherVars

\* os.Rename fails although the temporary file is there
RenameFails(e) ==
  /\ pc[e] = "rename"
  /\ Exists(TmpPath(entry[e].fullPath))
  /\ fd' = [fd EXCEPT ![e] = 0]
  /\ content' = Reclaim(content, dir, fd')
  /\ errMsg' = [errMsg EXCEPT ![e] = "rename failed"]
  /\ downloaded' = [downloaded EXCEPT ![e] = 0]
  /\ pc' = [pc EXCEPT ![e] = "renameFailed"]
  /\ UNCHANGED << entry, retry, force, ctxDone, readErr, dir, storeVars, hubVars,
                  signalled >>
  /\ UNCHANGED otherVars

\* ------------------------------------------------------------------ Cancel
\* Cancel looking the execution up in d.progress instead of d.cancelFns
CancelTargetFromProgress(fileID) == progress[fileID]

\* the execution whose cancel function Cancel(fileID) calls (0: none)
CancelTarget(fileID) == cancelFns[fileID]

\* under d.mu: call the cancel function stored under fileID, if any
Cancel(fileID) ==
  /\ IF CancelTarget(fileID) # 0
     THEN /\ ctxDone' = [ctxDone EXCEPT ![CancelTarget(fileID)] = TRUE]
          /\ signalled' = [signalled EXCEPT ![CancelTarget(fileID)] =
                             @ \/ recs[CancelTarget(fileID)].Status = "downloading"]
     ELSE UNCHANGED << ctxDone, signalled >>
  /\ UNCHANGED << execVars, storeVars, fsVars, hubVars >>
  /\ UNCHANGED otherVars

\* ------------------------------------------------------------------ hub operations
Subscribe ==
  /\ nchans < MaxSubs
  /\ nchans' = nchans + 1
  /\ listeners' = Append(listeners, nchans + 1)
  /\ UNCHANGED << execVars, ctxDone, storeVars, fsVars, queue, closed, signalled,
                  sent, got, full >>
  /\ UNCHANGED otherVars

\* d.listeners cut at its first occurrence of ch: d.listeners[:i]
RemoveListenerAndRest(ls, ch) ==
  LET i == CHOOSE j \in 1 .. Len(ls) :
             ls[j] = ch /\ \A k \in 1 .. (j - 1) : ls[k] # ch
  IN SubSeq(ls, 1, i - 1)

\* d.listeners without its first occurrence of ch
RemoveListener(ls, ch) ==
  LET i == CHOOSE j \in 1 .. Len(ls) :
             ls[j] = ch /\ \A k \in 1 .. (j - 1) : ls[k] # ch
  IN SubSeq(ls, 1, i - 1) \o SubSeq(ls, i + 1, Len(ls))

\* remove ch from d.listeners and close it (nothing when it is not there);
\* ProgressStream calls it as it returns, so what ch buffered is dropped
Unsubscribe(ch) ==
  /\ IF IsListener(listeners, ch)
     THEN /\ listeners' = RemoveListener(listeners, ch)
          /\ closed' = [closed EXCEPT ![ch] = TRUE]
          /\ queue' = [queue EXCEPT ![ch] = << >>]
          /\ sent' = [sent EXCEPT ![ch] = << >>]
          /\ got' = [got EXCEPT ![ch] = << >>]
          /\ full' = [full EXCEPT ![ch] = FALSE]
     ELSE UNCHANGED << listeners, closed, queue, sent, got, full >>
  /\ UNCHANGED << execVars, ctxDone, storeVars, fsVars, nchans, signalled >>
  /\ UNCHANGED otherVars

\* ProgressStream: progress := <-ch
Receive(ch) ==
  /\ ~closed[ch]
  /\ queue[ch] # << >>
  /\ queue' = [queue EXCEPT ![ch] = Tail(@)]
  /\ got' = [got EXCEPT ![ch] = Append(@, Head(queue[ch]))]
  /\ UNCHANGED << execVars, ctxDone, storeVars, fsVars, listeners, closed, nchans,
                  signalled, sent, full >>
  /\ UNCHANGED otherVars

\* ------------------------------------------------------------------ reads
\* what a caller sees through a pointer a read returned
Deref(ptr) == IF ptr = 0 THEN NoProgress ELSE recs[ptr]

\* GetAllProgress: under d.mu.RLock a new map is filled with the keys of
\* d.progress and the *Progress pointers stored under them
GetAllProgress ==
  /\ nreads < MaxReads
  /\ nreads' = nreads + 1
  /\ result' = [i \in IDs |-> progress[i]]
  /\ returned' = [i \in IDs |-> Deref(progress[i])]
  /\ UNCHANGED << execVars, ctxDone, storeVars, fsVars, hubVars, signalled >>
  /\ UNCHANGED << probeVars, idVars, lockVars >>

\* GetProgress: under d.mu.RLock the *Progress stored under fileID, or nil
GetProgress(fileID) ==
  /\ nreads < MaxReads
  /\ nreads' = nreads + 1
  /\ result' = [i \in IDs |-> IF i = fileID THEN progress[i] ELSE 0]
  /\ returned' = [i \in IDs |-> IF i = fileID THEN Deref(progress[i]) ELSE NoProgress]
  /\ UNCHANGED << execVars, ctxDone, storeVars, fsVars, hubVars, signalled >>
  /\ UNCHANGED << probeVars, idVars, lockVars >>

\* ------------------------------------------------------------------ strings
\* a Go string as the sequence of its bytes
Chars(s) == [i \in 1 .. Len(s) |-> SubSeq(s, i, i)]

\* strings.Index / strings.LastIndex for a one-byte separator (0: not found)
IndexOf(s, c) ==
  IF \E i \in 1 .. Len(s) : s[i] = c
  THEN CHOOSE i \in 1 .. Len(s) : s[i] = c /\ \A j \in 1 .. (i - 1) : s[j] # c
  ELSE 0

LastIndexOf(s, c) ==
  IF \E i \in 1 .. Len(s) : s[i] = c
  THEN CHOOSE i \in 1 .. Len(s) : s[i] = c /\ \A j \in (i + 1) .. Len(s) : s[j] # c
  ELSE 0

\* strings.Index for a separator of several bytes (0: not found)
IndexStr(s, sub) ==
  LET at(i) == i + Len(sub) - 1 <= Len(s) /\ SubSeq(s, i, i + Len(sub) - 1) = sub IN
    IF \E i \in 1 .. Len(s) : at(i)
    THEN CHOOSE i \in 1 .. Len(s) : at(i) /\ \A j \in 1 .. (i - 1) : ~at(j)
    ELSE 0

\* s[i:] for the 0-based Go index i
From(s, i) == SubSeq(s, i + 1, Len(s))

HasPrefix(s, prefix) ==
  Len(s) >= Len(prefix) /\ SubSeq(s, 1, Len(prefix)) = prefix

\* strings.Split(s, c) for a one-byte separator
RECURSIVE SplitOn(_, _)
SplitOn(s, c) ==
  IF IndexOf(s, c) = 0 THEN << s >>
  ELSE << SubSeq(s, 1, IndexOf(s, c) - 1) >> \o SplitOn(From(s, IndexOf(s, c)), c)

RECURSIVE TrimLeft(_, _)
TrimLeft(s, cutset) ==
  IF s # << >> /\ Head(s) \in cutset THEN TrimLeft(Tail(s), cutset) ELSE s

RECURSIVE TrimRight(_, _)
TrimRight(s, cutset) ==
  IF s # << >> /\ s[Len(s)] \in cutset
  THEN TrimRight(SubSeq(s, 1, Len(s) - 1), cutset) ELSE s

\* strings.Trim(s, cutset)
Trim(s, cutset) == TrimRight(TrimLeft(s, cutset), cutset)

\* strings.TrimSpace
TrimSpace(s) == Trim(s, {" ", "\t", "\n", "\r", "\f"})

Upper == Chars("ABCDEFGHIJKLMNOPQRSTUVWXYZ")
Lower == Chars("abcdefghijklmnopqrstuvwxyz")

\* strings.ToLower on ASCII
ToLower(s) ==
  [i \in 1 .. Len(s) |->
     IF \E k \in 1 .. 26 : Upper[k] = s[i]
     THEN Lower[CHOOSE k \in 1 .. 26 : Upper[k] = s[i]] ELSE s[i]]

Digits == Chars("0123456789")
IsDigit(c) == \E k \in 1 .. 10 : Digits[k] = c
DigitVal(c) == (CHOOSE k \in 1 .. 10 : Digits[k] = c) - 1

HexDigits == Chars("0123456789abcdef")
IsHex(c) == \E k \in 1 .. 16 : HexDigits[k] = ToLower(<< c >>)[1]
HexVal(c) == (CHOOSE k \in 1 .. 16 : HexDigits[k] = ToLower(<< c >>)[1]) - 1

\* the bytes 32..126; the grave accent (96) and any other byte are written "?"
Ascii ==
  Chars(" !\"#$%&'()*+,-./0123456789:;<=>?@ABCDEFGHIJKLMNOPQRSTUVWXYZ[\\]^_")
    \o << "?" >> \o Chars("abcdefghijklmnopqrstuvwxyz{|}~")
Chr(n) == IF n \in 32 .. 126 THEN Ascii[n - 31] ELSE "?"

\* net/url unescape, first pass: every '%' is followed by two hex digits
ValidEscapes(s) ==
  \A i \in 1 .. Len(s) :
    s[i] = "%" => i + 2 <= Len(s) /\ IsHex(s[i + 1]) /\ IsHex(s[i + 2])

\* net/url unescape, second pass, on a string with valid escapes
RECURSIVE Decode(_)
Decode(s) ==
  IF s = << >> THEN << >>
  ELSE IF Head(s) = "%"
       THEN << Chr(16 * HexVal(s[2]) + HexVal(s[3])) >> \o Decode(From(s, 3))
       ELSE << Head(s) >> \o Decode(Tail(s))

\* url.PathUnescape: ("", err) on an invalid escape
PathUnescape(s) ==
  IF ValidEscapes(s) THEN [s |-> Decode(s), err |-> FALSE]
  ELSE [s |-> << >>, err |-> TRUE]

\* url.Parse of scheme://host/path?query (no fragment): Path is the
\* unescaped path, and an invalid escape in the path is an error
UrlParse(rawURL) ==
  LET q == IndexOf(rawURL, "?")
      noQuery == IF q = 0 THEN rawURL ELSE SubSeq(rawURL, 1, q - 1)
      rest == From(noQuery, IndexOf(noQuery, ":"))
      hostPath == From(rest, 2)
      slash == IndexOf(hostPath, "/")
      path == IF slash = 0 THEN << >> ELSE From(hostPath, slash - 1)
  IN  [Path |-> PathUnescape(path).s, err |-> PathUnescape(path).err]

RECURSIVE NatOf(_)
NatOf(s) ==
  IF s = << >> THEN 0
  ELSE 10 * NatOf(SubSeq(s, 1, Len(s) - 1)) + DigitVal(s[Len(s)])

\* strconv.ParseInt(s, 10, 64) for values that fit
ParseInt(s) ==
  LET signed == s # << >> /\ Head(s) \in {"+", "-"}
      body == IF signed THEN Tail(s) ELSE s
  IN  IF body = << >> \/ \E i \in 1 .. Len(body) : ~IsDigit(body[i])
      THEN [n |-> 0, err |-> TRUE]
      ELSE [n |-> IF signed /\ Head(s) = "-" THEN 0 - NatOf(body) ELSE NatOf(body),
            err |-> FALSE]

\* ------------------------------------------------------------------ probe
\* a looksLikeID whose last line is return true
LooksLikeIDOrEmpty(name) ==
  LET idx == LastIndexOf(name, ".")
      stem == IF idx # 0 THEN SubSeq(name, 1, idx - 1) ELSE name
  IN  \A i \in 1 .. Len(stem) : IsDigit(stem[i])

\* looksLikeID: the name up to its last '.' is all digits and not empty
looksLikeID(name) ==
  LET idx == LastIndexOf(name, ".")
      stem == IF idx # 0 THEN SubSeq(name, 1, idx - 1) ELSE name
  IN  /\ \A i \in 1 .. Len(stem) : IsDigit(stem[i])
      /\ Len(stem) > 0

\* the loop of parseContentDisposition over the parts of the header
RECURSIVE filenameOfParts(_)
filenameOfParts(parts) ==
  IF parts = << >> THEN << >>
  ELSE LET part == TrimSpace(Head(parts)) IN
    IF HasPrefix(ToLower(part), Chars("filename*="))
    THEN LET value == From(part, 10)
             idx == IndexStr(value, Chars("''"))
             encoded == From(value, idx + 1)
         IN  IF idx # 0
             THEN IF PathUnescape(encoded).err THEN encoded
                  ELSE PathUnescape(encoded).s
             ELSE Trim(value, {"\"", "'"})
    ELSE IF HasPrefix(ToLower(part), Chars("filename="))
         THEN Trim(From(part, 9), {"\"", "'"})
         ELSE filenameOfParts(Tail(parts))

parseContentDisposition(header) == filenameOfParts(SplitOn(header, ";"))

\* extractFileNameFromURL: the last '/'-separated part of parsed.Path (of
\* rawURL cut at '?' when url.Parse fails), passed through url.PathUnescape
extractFileNameFromURL(rawURL) ==
  IF UrlParse(rawURL).err
  THEN LET parts == SplitOn(rawURL, "/")
           last == parts[Len(parts)]
           idx == IndexOf(last, "?")
       IN  PathUnescape(IF idx # 0 THEN SubSeq(last, 1, idx - 1) ELSE last).s
  ELSE LET parts == SplitOn(UrlParse(rawURL).Path, "/")
       IN  PathUnescape(parts[Len(parts)]).s

\* what the server does with one request: client.Do fails (connection
\* error, timeout, too many redirects), or a response with these headers
NoResponse ==
  [err |-> TRUE, ContentLength |-> 0, ContentRange |-> << >>,
   ContentDisposition |-> << >>]

\* tryGetFileInfo: http.NewRequest fails on a URL url.Parse rejects
tryGetFileInfo(targetURL, resp) ==
  IF UrlParse(targetURL).err \/ resp.err
  THEN [fileName |-> << >>, fileSize |-> 0]
  ELSE LET contentRange == resp.ContentRange
           idx == LastIndexOf(contentRange, "/")
           size == ParseInt(From(contentRange, idx))
           fileSize ==
             IF resp.ContentLength < 0 /\ contentRange # << >> /\ idx # 0 /\ ~size.err
             THEN size.n ELSE resp.ContentLength
       IN  [fileName |-> IF resp.ContentDisposition # << >>
                         THEN parseContentDisposition(resp.ContentDisposition)
                         ELSE << >>,
            fileSize |-> fileSize]

\* GetFileInfoFromURL called without a token (requestURL = targetURL):
\* HEAD, then GET with Range: bytes=0-0, then the URL path
GetFileInfoFromURL(targetURL, head, get) ==
  LET h == tryGetFileInfo(targetURL, head)
      g == tryGetFileInfo(targetURL, get)
  IN  IF h.fileName # << >> /\ ~looksLikeID(h.fileName) THEN h
      ELSE IF g.fileName # << >> /\ ~looksLikeID(g.fileName) THEN g
      ELSE [fileName |-> extractFileNameFromURL(targetURL), fileSize |-> g.fileSize]

\* inputs of the probe
SegChars == {"x", "2", "5", ".", "%"}
LastSegments == UNION { [1 .. k -> SegChars] : k \in 0 .. MaxSegLen }
ProbeURLs ==
  { Chars("http://h/d/") \o seg \o query :
      seg \in LastSegments, query \in {<< >>, Chars("?x=2")} }
Dispositions ==
  { << >>,
    Chars("inline"),
    Chars("attachment; filename=\"x.2\""),
    Chars("Attachment; FileName=25.x"),
    Chars("attachment; filename*=UTF-8''x%252") }
Responses ==
  { NoResponse } \cup
  { [err |-> FALSE, ContentLength |-> n[1], ContentRange |-> n[2],
     ContentDisposition |-> cd] :
      n \in { << 7, << >> >>, << 0 - 1, << >> >>, << 0 - 1, Chars("bytes 0-0/9") >> },
      cd \in Dispositions }

NoResult == [fileName |-> << "none" >>, fileSize |-> 0]

\* one call of GetFileInfoFromURL (Handler.GetFileInfo)
Probe ==
  /\ probeOut = NoResult
  /\ probeOut' = GetFileInfoFromURL(probeIn.url, probeIn.head, probeIn.get)
  /\ UNCHANGED << execVars, ctxDone, storeVars, fsVars, hubVars, signalled,
                  readVars, probeIn, idVars, lockVars >>

\* names looksLikeID is called with: digits, the characters next to the
\* digits in ASCII, the extension separator and a letter
NameChars == {"0", "9", "/", ":", ".", "x"}
Names == UNION { [1 .. k -> NameChars] : k \in 0 .. MaxNameLen }

\* one call of looksLikeID
LooksLike ==
  /\ nameOut = << >>
  /\ nameOut' = << looksLikeID(nameIn) >>
  /\ UNCHANGED << execVars, ctxDone, storeVars, fsVars, hubVars, signalled,
                  readVars, probeVars, nameIn, lockVars >>

\* ------------------------------------------------------------------ locks
\* The methods of Downloader as sequences of instructions, for the properties
\* of d.mu and d.listenerMu. "io" is a call that leaves the process (file
\* system, network), "map" a read or write of d.progress / d.cancelFns or of
\* a Progress value. What is stored and published is left out at this
\* level; the hub's history variables are not kept.

\* a Download that does not unlock d.mu after registering
DownloadCodeKeepsLock ==
  << "io", "io", "mu.Lock", "map",
     "io", "io", "updateProgress", "io", "io", "updateProgress", "io",
     "updateProgress", "mu.Lock", "map", "mu.Unlock" >>

\* Download of a body of one chunk, nothing failing
DownloadCode ==
  << "io",              \* os.Stat
     "io",              \* os.MkdirAll
     "mu.Lock", "map", "mu.Unlock",
     "io",              \* client.Do
     "io",              \* os.Create
     "updateProgress",  \* Total
     "io",              \* resp.Body.Read
     "io",              \* out.Write
     "updateProgress",  \* Downloaded, Percent
     "io",              \* resp.Body.Read (io.EOF), out.Close, os.Rename
     "updateProgress",  \* completed
     "mu.Lock", "map", "mu.Unlock" >>

\* a broadcast that does not take d.listenerMu
UpdateProgressCodeNoRLock ==
  << "mu.Lock", "map", "range", "send", "mu.Unlock" >>

\* a broadcast that does not release d.listenerMu
UpdateProgressCodeNoRUnlock ==
  << "mu.Lock", "map", "listenerMu.RLock", "range", "send", "mu.Unlock" >>

\* updateProgress with broadcast inlined
UpdateProgressCode ==
  << "mu.Lock", "map", "listenerMu.RLock", "range", "send",
     "listenerMu.RUnlock", "mu.Unlock" >>

CancelCode == << "mu.Lock", "map", "mu.Unlock" >>
GetProgressCode == << "mu.RLock", "map", "mu.RUnlock" >>
GetAllProgressCode == << "mu.RLock", "map", "mu.RUnlock" >>
SubscribeCode == << "listenerMu.Lock", "append", "listenerMu.Unlock" >>
UnsubscribeCode == << "listenerMu.Lock", "remove", "close", "listenerMu.Unlock" >>

Calls ==
  { "Download", "Cancel", "GetProgress", "GetAllProgress", "Subscribe",
    "Unsubscribe" }

Code(call) ==
  CASE call = "Download" -> DownloadCode
    [] call = "Cancel" -> CancelCode
    [] call = "GetProgress" -> GetProgressCode
    [] call = "GetAllProgress" -> GetAllProgressCode
    [] call = "Subscribe" -> SubscribeCode
    [] call = "Unsubscribe" -> UnsubscribeCode
    [] OTHER -> << >>

\* a goroutine is in no call; it has died of a run-time panic
Idle == [call |-> "idle", ip |-> 0, sub |-> 0]
Panicked == [call |-> "panic", ip |-> 0, sub |-> 0]

\* the instruction the goroutine is at (sub: its position in updateProgress)
Instr(g) ==
  IF pos[g].call \notin Calls THEN "none"
  ELSE IF pos[g].sub > 0 THEN UpdateProgressCode[pos[g].sub]
  ELSE Code(pos[g].call)[pos[g].ip]

\* the position after the instruction at a: the next instruction, the
\* caller's next instruction when updateProgress returns, Idle when the call
\* returns
Advance(a) ==
  IF a.sub > 0 /\ a.sub < Len(UpdateProgressCode)
  THEN [a EXCEPT !.sub = a.sub + 1]
  ELSE IF a.ip < Len(Code(a.call))
       THEN [a EXCEPT !.sub = 0, !.ip = a.ip + 1]
       ELSE Idle

\* sync.RWMutex: w is the goroutine that holds the write lock or, while
\* locked is FALSE, has announced itself and waits for the readers to
\* leave; r are the goroutines that hold the read lock
Unlocked == [w |-> 0, locked |-> FALSE, r |-> {}]
CanLock(m, g) == m.w = 0 \/ (m.w = g /\ ~m.locked /\ m.r = {})
AfterLock(m, g) == [m EXCEPT !.w = g, !.locked = (m.r = {})]
CanRLock(m) == m.w = 0
Holds(m, g) == (m.w = g /\ m.locked) \/ g \in m.r

\* a handler goroutine calls a method of the Downloader
StartCall(g, call, ch) ==
  /\ pos[g] = Idle
  /\ \A h \in 1 .. (g - 1) : pos[h] # Idle
  /\ ncalls < MaxCalls
  /\ call = "Unsubscribe" \/ ch = 0
  /\ call = "Unsubscribe" => ch \in Chans
  /\ call = "Subscribe" =>
       nchans + Cardinality({h \in Goroutines :
                               pos[h].call = "Subscribe" /\ pos[h].ip <= 2}) < MaxSubs
  /\ ncalls' = ncalls + 1
  /\ pos' = [pos EXCEPT ![g] = [call |-> call, ip |-> 1, sub |-> 0]]
  /\ target' = [target EXCEPT ![g] = ch]
  /\ UNCHANGED << execVars, ctxDone, storeVars, fsVars, hubVars, signalled,
                  readVars, probeVars, idVars, loop, mu, listenerMu >>

\* what every instruction but those on channels and d.listeners leaves alone
LockFrame ==
  UNCHANGED << execVars, ctxDone, storeVars, fsVars, hubVars, signalled,
               readVars, probeVars, idVars, loop, target, ncalls >>

\* a file system or network call
IOCall(g) ==
  /\ Instr(g) = "io"
  /\ pos' = [pos EXCEPT ![g] = Advance(@)]
  /\ UNCHANGED << mu, listenerMu >>
  /\ LockFrame

\* a map lookup or mutation, fn(p), cancel()
MapOp(g) ==
  /\ Instr(g) = "map"
  /\ pos' = [pos EXCEPT ![g] = Advance(@)]
  /\ UNCHANGED << mu, listenerMu >>
  /\ LockFrame

\* d.updateProgress(entry.ID, ...)
CallUpdate(g) ==
  /\ Instr(g) = "updateProgress"
  /\ pos' = [pos EXCEPT ![g].sub = 1]
  /\ UNCHANGED << mu, listenerMu >>
  /\ LockFrame

MuLock(g) ==
  /\ Instr(g) = "mu.Lock"
  /\ CanLock(mu, g)
  /\ mu' = AfterLock(mu, g)
  /\ pos' = IF mu'.locked THEN [pos EXCEPT ![g] = Advance(@)] ELSE pos
  /\ UNCHANGED listenerMu
  /\ LockFrame

MuUnlock(g) ==
  /\ Instr(g) = "mu.Unlock"
  /\ mu' = [mu EXCEPT !.w = 0, !.locked = FALSE]
  /\ pos' = [pos EXCEPT ![g] = Advance(@)]
  /\ UNCHANGED listenerMu
  /\ LockFrame

MuRLock(g) ==
  /\ Instr(g) = "mu.RLock"
  /\ CanRLock(mu)
  /\ mu' = [mu EXCEPT !.r = @ \cup {g}]
  /\ pos' = [pos EXCEPT ![g] = Advance(@)]
  /\ UNCHANGED listenerMu
  /\ LockFrame

MuRUnlock(g) ==
  /\ Instr(g) = "mu.RUnlock"
  /\ mu' = [mu EXCEPT !.r = @ \ {g}]
  /\ pos' = [pos EXCEPT ![g] = Advance(@)]
  /\ UNCHANGED listenerMu
  /\ LockFrame

ListenerLock(g) ==
  /\ Instr(g) = "listenerMu.Lock"
  /\ CanLock(listenerMu, g)
  /\ listenerMu' = AfterLock(listenerMu, g)
  /\ pos' = IF listenerMu'.locked THEN [pos EXCEPT ![g] = Advance(@)] ELSE pos
  /\ UNCHANGED mu
  /\ LockFrame

ListenerUnlock(g) ==
  /\ Instr(g) = "listenerMu.Unlock"
  /\ listenerMu' = [listenerMu EXCEPT !.w = 0, !.locked = FALSE]
  /\ pos' = [pos EXCEPT ![g] = Advance(@)]
  /\ UNCHANGED mu
  /\ LockFrame

ListenerRLock(g) ==
  /\ Instr(g) = "listenerMu.RLock"
  /\ CanRLock(listenerMu)
  /\ listenerMu' = [listenerMu EXCEPT !.r = @ \cup {g}]
  /\ pos' = [pos EXCEPT ![g] = Advance(@)]
  /\ UNCHANGED mu
  /\ LockFrame

ListenerRUnlock(g) ==
  /\ Instr(g) = "listenerMu.RUnlock"
  /\ listenerMu' = [listenerMu EXCEPT !.r = @ \ {g}]
  /\ pos' = [pos EXCEPT ![g] = Advance(@)]
  /\ UNCHANGED mu
  /\ LockFrame

\* for _, ch := range d.listeners: the slice is read once; with no listener
\* the loop body is not entered
Range(g) ==
  /\ Instr(g) = "range"
  /\ loop' = [loop EXCEPT ![g] = listeners]
  /\ pos' = [pos EXCEPT ![g] = IF listeners = << >> THEN Advance(Advance(@))
                             ELSE Advance(@)]
  /\ UNCHANGED << execVars, ctxDone, storeVars, fsVars, hubVars, signalled,
                  readVars, probeVars, idVars, target, mu, listenerMu, ncalls >>

\* select { case ch <- p: default: } for the next channel of the loop; a
\* send on a closed channel panics
Send(g) ==
  /\ Instr(g) = "send"
  /\ loop[g] # << >>
  /\ LET ch == Head(loop[g]) IN
       IF closed[ch]
       THEN /\ pos' = [pos EXCEPT ![g] = Panicked]
            /\ UNCHANGED << queue, loop >>
       ELSE /\ queue' = [queue EXCEPT ![ch] =
                           IF Len(@) < QueueCap THEN Append(@, NoProgress) ELSE @]
            /\ loop' = [loop EXCEPT ![g] = Tail(@)]
            /\ pos' = [pos EXCEPT ![g] = IF Tail(loop[g]) = << >> THEN Advance(@)
                                       ELSE @]
  /\ UNCHANGED << execVars, ctxDone, storeVars, fsVars, listeners, closed,
                  nchans, sent, got, full, signalled, readVars, probeVars,
                  idVars, target, mu, listenerMu, ncalls >>

\* ch := make(chan Progress, 100); d.listeners = append(d.listeners, ch)
AppendListener(g) ==
  /\ Instr(g) = "append"
  /\ nchans' = nchans + 1
  /\ listeners' = Append(listeners, nchans + 1)
  /\ pos' = [pos EXCEPT ![g] = Advance(@)]
  /\ UNCHANGED << execVars, ctxDone, storeVars, fsVars, queue, closed, sent,
                  got, full, signalled, readVars, probeVars, idVars, loop,
                  target, mu, listenerMu, ncalls >>

\* the loop of Unsubscribe up to the splice; close is skipped when ch is
\* not in d.listeners
SpliceListener(g) ==
  /\ Instr(g) = "remove"
  /\ IF IsListener(listeners, target[g])
     THEN /\ listeners' = RemoveListener(listeners, target[g])
          /\ pos' = [pos EXCEPT ![g] = Advance(@)]
     ELSE /\ UNCHANGED listeners
          /\ pos' = [pos EXCEPT ![g] = Advance(Advance(@))]
  /\ UNCHANGED << execVars, ctxDone, storeVars, fsVars, queue, closed, nchans,
                  sent, got, full, signalled, readVars, probeVars, idVars,
                  loop, target, mu, listenerMu, ncalls >>

\* close(ch): closing a closed channel panics; what ch buffered is dropped
\* as in Unsubscribe
CloseListener(g) ==
  /\ Instr(g) = "close"
  /\ IF closed[target[g]]
     THEN /\ pos' = [pos EXCEPT ![g] = Panicked]
          /\ UNCHANGED << closed, queue >>
     ELSE /\ closed' = [closed EXCEPT ![target[g]] = TRUE]
          /\ queue' = [queue EXCEPT ![target[g]] = << >>]
          /\ pos' = [pos EXCEPT ![g] = Advance(@)]
  /\ UNCHANGED << execVars, ctxDone, storeVars, fsVars, listeners, nchans,
                  sent, got, full, signalled, readVars, probeVars, idVars,
                  loop, target, mu, listenerMu, ncalls >>

\* one instruction of goroutine g
GoStep(g) ==
  \/ IOCall(g) \/ MapOp(g) \/ CallUpdate(g)
  \/ MuLock(g) \/ MuUnlock(g) \/ MuRLock(g) \/ MuRUnlock(g)
  \/ ListenerLock(g) \/ ListenerUnlock(g) \/ ListenerRLock(g)
  \/ ListenerRUnlock(g)
  \/ Range(g) \/ Send(g) \/ AppendListener(g) \/ SpliceListener(g)
  \/ CloseListener(g)

\* ------------------------------------------------------------------ specification
\* NewDownloader: empty maps, no listeners; the disk holds an earlier file
\* "p"; n Download calls are to come
InitExecs(n) ==
  /\ pc = [e \in Execs |-> IF e <= n THEN "idle" ELSE "unused"]
  /\ entry = [e \in Execs |-> NoEntry]
  /\ force = [e \in Execs |-> FALSE]
  /\ ctxDone = [e \in Execs |-> FALSE]
  /\ downloaded = [e \in Execs |-> 0]
  /\ readErr = [e \in Execs |-> "nil"]
  /\ errMsg = [e \in Execs |-> ""]
  /\ fd = [e \in Execs |-> 0]
  /\ recs = [e \in Execs |-> NoProgress]
  /\ progress = [i \in IDs |-> 0]
  /\ cancelFns = [i \in IDs |-> 0]
  /\ dir = [p \in AllPaths |-> IF p = "p" THEN OldIno ELSE 0]
  /\ content = [i \in Inodes |-> IF i = OldIno THEN OldContent ELSE << >>]
  /\ listeners = << >>
  /\ queue = [ch \in Chans |-> << >>]
  /\ closed = [ch \in Chans |-> FALSE]
  /\ nchans = 0
  /\ signalled = [e \in Execs |-> FALSE]
  /\ retry = [e \in Execs |-> FALSE]
  /\ sent = [ch \in Chans |-> << >>]
  /\ got = [ch \in Chans |-> << >>]
  /\ full = [ch \in Chans |-> FALSE]
  /\ result = [i \in IDs |-> 0]
  /\ nreads = 0
  /\ returned = [i \in IDs |-> NoProgress]
  /\ probeOut = NoResult
  /\ nameOut = << >>
  /\ pos = [g \in Goroutines |-> Idle]
  /\ loop = [g \in Goroutines |-> << >>]
  /\ target = [g \in Goroutines |-> 0]
  /\ mu = Unlocked
  /\ listenerMu = Unlocked
  /\ ncalls = 0

\* no probe is made in the runs of the downloader
NoProbe ==
  /\ probeIn = [url |-> << >>, head |-> NoResponse, get |-> NoResponse]
  /\ nameIn = << >>

Init == InitExecs(MaxExecs) /\ NoProbe

\* the steps of one Download execution when no I/O call fails on its own
ExecStep(e) ==
  \/ Download(e) \/ Start(e) \/ Register(e) \/ Request(e) \/ Create(e)
  \/ SetTotal(e) \/ Check(e) \/ ReadChunk(e) \/ ReadCancelled(e)
  \/ ChunkUpdate(e) \/ Rename(e) \/ RemoveAfterRename(e) \/ Complete(e)
  \/ CancelledUpdate(e) \/ Fail(e) \/ Deferred(e)

\* the I/O failures of one Download execution
FaultStep(e) ==
  \/ MkdirFails(e) \/ RequestFails(e) \/ CreateFails(e) \/ ReadOrWriteFails(e)
  \/ ReadChunkWithError(e) \/ ReadFail(e) \/ RenameFails(e)

\* transfers and cancellation
Next ==
  \/ \E e \in Execs : ExecStep(e)
  \/ \E i \in IDs : Cancel(i)

Spec == Init /\ [][Next]_vars

\* transfers, cancellation and I/O failures
NextFaults ==
  \/ \E e \in Execs : ExecStep(e)
  \/ \E e \in Execs : FaultStep(e)
  \/ \E i \in IDs : Cancel(i)

SpecFaults == Init /\ [][NextFaults]_vars

\* transfers, cancellation, I/O failures and the hub
NextHub ==
  \/ \E e \in Execs : ExecStep(e)
  \/ \E e \in Execs : FaultStep(e)
  \/ \E i \in IDs : Cancel(i)
  \/ Subscribe
  \/ \E ch \in Chans : Unsubscribe(ch)
  \/ \E ch \in Chans : Receive(ch)

\* the hub is exercised with HubExecs Download calls
InitHub == InitExecs(HubExecs) /\ NoProbe

SpecHub == InitHub /\ [][NextHub]_vars

\* transfers, cancellation and the read operations
NextRead ==
  \/ \E e \in Execs : ExecStep(e)
  \/ \E i \in IDs : Cancel(i)
  \/ GetAllProgress
  \/ \E i \in IDs : GetProgress(i)

SpecRead == Init /\ [][NextRead]_vars

\* the steps of one Download execution once it has been called, when no
\* I/O call fails and nobody cancels
LiveStep(e) ==
  \/ Start(e) \/ Register(e) \/ Request(e) \/ Create(e) \/ SetTotal(e)
  \/ Check(e) \/ ReadChunk(e) \/ ChunkUpdate(e) \/ Rename(e)
  \/ RemoveAfterRename(e) \/ Complete(e) \/ Fail(e) \/ Deferred(e)

\* transfers only
NextLive == \E e \in Execs : Download(e) \/ LiveStep(e)

\* the Go scheduler keeps running every goroutine that can take a step
SpecLive == Init /\ [][NextLive]_vars /\ \A e \in Execs : WF_vars(LiveStep(e))

\* a probe of any of the URLs against any pair of server answers, on a
\* downloader that runs no transfer
InitProbe ==
  /\ InitExecs(0)
  /\ probeIn \in [url : ProbeURLs, head : Responses, get : Responses]
  /\ nameIn = << >>

SpecProbe == InitProbe /\ [][Probe]_vars

\* looksLikeID called with any of the names
InitLooks ==
  /\ InitExecs(0)
  /\ probeIn = [url |-> << >>, head |-> NoResponse, get |-> NoResponse]
  /\ nameIn \in Names

SpecLooks == InitLooks /\ [][LooksLike]_vars

\* MaxGoroutines handler goroutines make MaxCalls calls of any kind, one
\* instruction at a time
NextLocks ==
  \/ \E g \in Goroutines, call \in Calls, ch \in {0} \cup Chans :
       StartCall(g, call, ch)
  \/ \E g \in Goroutines : GoStep(g)

InitLocks == InitExecs(0) /\ NoProbe

SpecLocks == InitLocks /\ [][NextLocks]_vars

\* the Go scheduler keeps running every goroutine that can take a step
SpecLocksLive ==
  InitLocks /\ [][NextLocks]_vars /\ \A g \in Goroutines : WF_vars(GoStep(g))

\* ------------------------------------------------------------------ properties
Terminal == {"completed", "error", "cancelled"}

\* the execution has registered itself and has not returned
InFlight(e) ==
  pc[e] \in {"request", "create", "setTotal", "check", "read", "progress",
             "readFail", "rename", "renameFailed", "complete", "cancelled",
             "fail", "defer"}

\* the execution has set its terminal status and is about to return
Returning(e) == pc[e] = "defer"

\* the execution is at one of its updateProgress calls
AtUpdate(e) == pc[e] \in {"setTotal", "progress", "complete", "cancelled", "fail"}

URLs == { f.URL : f \in Entries }

\* C1: once the status of a Progress record is completed, error or
\* cancelled, no step changes that record's status.
C1_StatusOneWay ==
  [][\A e \in Execs :
       recs[e].Status \in Terminal => recs'[e].Status = recs[e].Status]_vars

\* C2: cancelFns has an entry for id exactly when some execution for id has
\* registered and not returned, and the entry belongs to such an execution.
C2_HandleIffInFlight ==
  \A i \in IDs :
    /\ (cancelFns[i] # 0) <=> (\E e \in Execs : InFlight(e) /\ entry[e].ID = i)
    /\ cancelFns[i] # 0 => InFlight(cancelFns[i]) /\ entry[cancelFns[i]].ID = i

\* C3: the file at a final path is absent, the complete previous file, or
\* the complete body of one transfer.
C3_NoPartialFile ==
  \A p \in FinalPaths :
    \/ dir[p] = 0
    \/ dir[p] = OldIno
    \/ \E u \in URLs : content[dir[p]] = Body(u)

\* C4: a transfer that Cancel signalled while it was downloading ends with
\* status cancelled.
C4_SignalledEndsCancelled ==
  \A e \in Execs :
    Returning(e) /\ signalled[e]
      => recs[progress[entry[e].ID]].Status = "cancelled"

\* C5: after Cancel signalled an in-flight transfer and the transfer has
\* ended, neither its temporary file nor a file at its final path exists
\* (stated for the transfer that runs alone to a path that had no file).
C5_CancelLeavesNoFile ==
  \A e \in Execs :
    /\ Returning(e) /\ signalled[e]
    /\ entry[e].fullPath = "q"
    /\ \A o \in Execs \ {e} : pc[o] \in {"idle", "unused"}
    => /\ ~Exists(TmpPath(entry[e].fullPath))
       /\ ~Exists(entry[e].fullPath)

\* C6: a Download called with force after its id's record became cancelled
\* has, for its whole run, its own record and its own cancellation handle
\* stored under the id.
C6_RetryKeepsHandle ==
  \A e \in Execs :
    retry[e] /\ InFlight(e)
      => progress[entry[e].ID] = e /\ cancelFns[entry[e].ID] = e

\* C7: when the destination exists and force is false, Download returns at
\* once and changes neither the store, the handles, the hub, any context nor
\* any file.
C7_SkipChangesNothing ==
  [][\A e \in Execs :
       (pc[e] = "start" /\ ~force[e] /\ Exists(entry[e].fullPath) /\ pc'[e] # "start")
         => /\ pc'[e] = "done"
            /\ UNCHANGED << recs, progress, cancelFns, ctxDone, dir, content,
                            listeners, queue, closed, nchans, fd >>]_vars

\* two calls were skipped one after the other and the file is still the old one
C7_Witness ==
  \E e, o \in Execs :
    /\ e # o
    /\ \A x \in {e, o} : pc[x] = "done" /\ entry[x].fullPath = "p" /\ recs[x] = NoProgress
    /\ dir["p"] = OldIno
    /\ \A i \in IDs : progress[i] = 0 /\ cancelFns[i] = 0

\* C8: a context is cancelled only by Cancel of the id whose handle is that
\* execution's; the step cancels no other context and changes neither the
\* store, the handles, the hub nor any file. Without a handle nothing changes.
C8_CancelSignalsOnlyItsHandle ==
  [][\A e \in Execs :
       (~ctxDone[e] /\ ctxDone'[e])
         => /\ cancelFns[entry[e].ID] = e
            /\ \A o \in Execs \ {e} : ctxDone'[o] = ctxDone[o]
            /\ UNCHANGED << execVars, storeVars, fsVars, hubVars >>]_vars

\* one transfer was cancelled while another, still running, was not
C8_Witness ==
  \E e, o \in Execs :
    /\ e # o
    /\ InFlight(e) /\ ctxDone[e]
    /\ InFlight(o) /\ ~ctxDone[o]
    /\ entry[e].ID # entry[o].ID

\* the values of a sequence of snapshots that belong to one id
ForID(seq, i) == SelectSeq(seq, LAMBDA p : p.FileID = i)

\* C9: a subscriber whose channel was never full at a publish has received
\* or has buffered, for each id, exactly the snapshots published while it
\* was subscribed, in the order of the updateProgress calls.
C9_InOrderDelivery ==
  \A ch \in Chans :
    ~full[ch] =>
      \A i \in IDs : ForID(got[ch] \o queue[ch], i) = ForID(sent[ch], i)

\* a subscriber followed a whole transfer through to completed without loss
C9_Witness ==
  \E ch \in Chans :
    /\ ~full[ch] /\ IsListener(listeners, ch)
    /\ Len(got[ch]) >= 2 /\ Len(queue[ch]) >= 2
    /\ sent[ch][Len(sent[ch])].Status = "completed"

\* the updateProgress call the execution is at
UpdateStep(e) ==
  SetTotal(e) \/ ChunkUpdate(e) \/ Complete(e) \/ CancelledUpdate(e) \/ Fail(e)

\* C10: every updateProgress step is taken whatever the channels hold; it
\* leaves a full channel as it is and appends the snapshot to every other
\* subscribed channel.
C10_PublishNeverBlocks ==
  /\ [](\A e \in Execs : AtUpdate(e) => ENABLED UpdateStep(e))
  /\ [][\A e \in Execs :
          (AtUpdate(e) /\ pc'[e] # pc[e])
            => \A ch \in Chans :
                 IsListener(listeners, ch)
                   => queue'[ch] = IF Len(queue[ch]) < QueueCap
                                   THEN Append(queue[ch], recs'[progress[entry[e].ID]])
                                   ELSE queue[ch]]_vars

\* a transfer has finished although the first subscriber's channel was full
\* at a publish, and the second subscriber got that update
C10_Witness ==
  \E e \in Execs, ch, other \in Chans :
    /\ pc[e] = "defer"
    /\ ch # other
    /\ IsListener(listeners, ch) /\ IsListener(listeners, other)
    /\ full[ch] /\ ~full[other]
    /\ Len(sent[other]) <= Len(sent[ch])
    /\ Len(got[other]) + Len(queue[other]) > Len(got[ch]) + Len(queue[ch])

\* C11: while the status of a Progress record is downloading its Downloaded
\* never decreases, and the step that makes the status terminal leaves
\* Downloaded at the value it had.
C11_DownloadedMonotone ==
  [][\A e \in Execs :
       recs[e].Status = "downloading"
         => /\ recs'[e].Status = "downloading"
                 => recs'[e].Downloaded >= recs[e].Downloaded
            /\ recs'[e].Status \in Terminal
                 => recs'[e].Downloaded = recs[e].Downloaded]_vars

\* C12: what a caller holds after GetAllProgress or GetProgress has returned
\* is, in every later state, the content the store had when the call read it.
C12_ReadIsSnapshot ==
  nreads > 0 => \A i \in IDs : Deref(result[i]) = returned[i]

\* C13: when os.MkdirAll or os.Create fails, no byte of the body has been
\* read or written and the record stored under the transfer's id ends with
\* status error and a non-empty message.
C13_SetupFailureRecorded ==
  /\ [](\A e \in Execs :
          (pc[e] = "done" /\ errMsg[e] = "failed to create directory")
            => /\ progress[entry[e].ID] # 0
               /\ Stored(entry[e].ID).Status = "error"
               /\ Stored(entry[e].ID).Error # "")
  /\ [][\A e \in Execs :
          (pc[e] = "fail" /\ errMsg[e] = "create failed" /\ pc'[e] = "defer")
            => /\ fd[e] = 0 /\ downloaded[e] = 0
               /\ Stored(entry[e].ID)'.Status = "error"
               /\ Stored(entry[e].ID)'.Error = "create failed"]_vars

\* the call has been made (the goroutine exists or has returned)
Started(e) == pc[e] \notin {"idle", "unused"}

\* two transfers with distinct ids and distinct destination paths
Independent(e, o) ==
  /\ e # o /\ Started(e) /\ Started(o)
  /\ entry[e].ID # entry[o].ID
  /\ entry[e].fullPath # entry[o].fullPath

CompletedWhole(e) ==
  /\ Started(e)
  /\ progress[entry[e].ID] = e
  /\ recs[e].Status = "completed"
  /\ recs[e].Downloaded = Len(Body(entry[e].URL))
  /\ recs[e].Total > 0 => recs[e].Downloaded = recs[e].Total
  /\ Exists(entry[e].fullPath)
  /\ content[dir[entry[e].fullPath]] = Body(entry[e].URL)

NameFrom(resp) ==
  IF resp.err \/ resp.ContentDisposition = << >> THEN << >>
  ELSE parseContentDisposition(resp.ContentDisposition)

\* the last path segment as it is written in the URL
RawLastSegment(rawURL) ==
  LET q == IndexOf(rawURL, "?")
      noQuery == IF q = 0 THEN rawURL ELSE SubSeq(rawURL, 1, q - 1)
  IN  From(noQuery, LastIndexOf(noQuery, "/"))

\* C16: for a URL whose escapes are well formed, GetFileInfoFromURL returns
\* the HEAD name if it is non-empty and not identifier-like, else the GET
\* name if it is non-empty and not identifier-like, else the last path
\* segment of the URL with its percent escapes decoded; a failed strategy
\* yields no name and the next one is used.
C16_ProbeNameChain ==
  (probeOut # NoResult /\ ValidEscapes(RawLastSegment(probeIn.url)))
    => probeOut.fileName =
         IF NameFrom(probeIn.head) # << >> /\ ~looksLikeID(NameFrom(probeIn.head))
         THEN NameFrom(probeIn.head)
         ELSE IF NameFrom(probeIn.get) # << >> /\ ~looksLikeID(NameFrom(probeIn.get))
              THEN NameFrom(probeIn.get)
              ELSE Decode(RawLastSegment(probeIn.url))

\* C17: when an execution records completed, the record stored under its id
\* has status completed, Percent 100 and Downloaded equal to the bytes the
\* execution streamed, those bytes are the file at the final path, and no
\* temporary file is left; when the rename has failed the record gets
\* status error and no temporary file is left.
C17_CompletedMeansFile ==
  [][\A e \in Execs :
       /\ (pc[e] = "complete" /\ pc'[e] = "defer")
            => /\ Stored(entry[e].ID)'.Status = "completed"
               /\ Stored(entry[e].ID)'.Percent = 100
               /\ Stored(entry[e].ID)'.Downloaded = downloaded[e]
               /\ Exists(entry[e].fullPath)
               /\ content[dir[entry[e].fullPath]]
                    = SubSeq(Body(entry[e].URL), 1, downloaded[e])
               /\ ~Exists(TmpPath(entry[e].fullPath))
       /\ (pc[e] = "fail" /\ errMsg[e] = "rename failed" /\ pc'[e] = "defer")
            => /\ Stored(entry[e].ID)'.Status = "error"
               /\ ~Exists(TmpPath(entry[e].fullPath))]_vars

\* the step is one of an execution that can now only end with status error
OnErrorPath(e) ==
  /\ pc'[e] # pc[e]
  /\ pc'[e] \in {"fail", "readFail", "renameFailed"} \/ readErr'[e] = "err"

\* C18: an execution that ends with status error has removed its temporary
\* file when it turns to record the error, its steps on the way to the
\* error leave the file at its final path (name and bytes) as it was, and
\* the record stored under its id gets status error and the non-empty
\* message of the failure.
C18_ErrorCleansUp ==
  [][\A e \in Execs :
       /\ (pc[e] \in {"read", "readFail", "renameFailed"} /\ pc'[e] = "fail")
            => dir'[TmpPath(entry[e].fullPath)] = 0
       /\ OnErrorPath(e)
            => /\ dir'[entry[e].fullPath] = dir[entry[e].fullPath]
               /\ Exists(entry[e].fullPath)
                    => content'[dir[entry[e].fullPath]] = content[dir[entry[e].fullPath]]
       /\ (pc[e] = "fail" /\ pc'[e] = "defer")
            => /\ errMsg[e] # ""
               /\ Stored(entry[e].ID)'.Status = "error"
               /\ Stored(entry[e].ID)'.Error = errMsg[e]]_vars

\* C19: every record in the store that carries an error message has status
\* error.
C19_ErrorOnlyWithStatusError ==
  \A i \in IDs :
    (progress[i] # 0 /\ Stored(i).Error # "") => Stored(i).Status = "error"

\* C20: a Progress record, once created, is changed only by steps of the
\* execution that created it: by no other execution, no Cancel and no read.
C20_SingleWriter ==
  [][\A e \in Execs :
       (recs[e] # NoProgress /\ recs'[e] # recs[e]) => pc'[e] # pc[e]]_vars

\* C21: once d.progress has a key for an id it has one in every later state,
\* whatever step is taken, and the key holds one record, which is a record
\* registered for that id.
C21_KeysOnlyGrow ==
  /\ [](\A i \in IDs :
          progress[i] # 0 => progress[i] \in Execs /\ recs[progress[i]].FileID = i)
  /\ [][\A i \in IDs : progress[i] # 0 => progress'[i] # 0]_vars

\* an id was registered, its transfer ended and returned, a later Download
\* registered the same id again, and the key is still there
C21_Witness ==
  \E e, o \in Execs :
    /\ e # o /\ entry[e].ID = entry[o].ID
    /\ pc[e] = "done" /\ recs[e].Status \in Terminal
    /\ InFlight(o) /\ progress[entry[o].ID] = o

\* the content length a probe learns: resp.ContentLength, or the total of
\* Content-Range when ContentLength is -1; -1 when the request failed or
\* the response carries neither
SizeFrom(resp) ==
  IF resp.err THEN 0 - 1
  ELSE IF resp.ContentLength >= 0 THEN resp.ContentLength
  ELSE LET idx == LastIndexOf(resp.ContentRange, "/")
           size == ParseInt(From(resp.ContentRange, idx))
       IN  IF idx # 0 /\ ~size.err THEN size.n ELSE 0 - 1

\* neither probe named the file: GetFileInfoFromURL uses the URL path
FellBack ==
  /\ probeOut # NoResult
  /\ ~UrlParse(probeIn.url).err
  /\ NameFrom(probeIn.head) = << >> \/ looksLikeID(NameFrom(probeIn.head))
  /\ NameFrom(probeIn.get) = << >> \/ looksLikeID(NameFrom(probeIn.get))

\* C24: when GetFileInfoFromURL falls back to the URL path, the size it
\* returns is a content length one of the two probes learned if either did
\* (so the HEAD length when the ranged GET failed or had none), and -1
\* (unknown) only when neither did.
C24_FallbackSize ==
  FellBack =>
    LET sizes == { SizeFrom(probeIn.head), SizeFrom(probeIn.get) } \ { 0 - 1 }
    IN  IF sizes = { } THEN probeOut.fileSize = 0 - 1
        ELSE probeOut.fileSize \in sizes

\* the name without its last '.' and what follows it
StemOf(name) ==
  IF \E i \in 1 .. Len(name) : name[i] = "."
  THEN LET last == CHOOSE i \in 1 .. Len(name) :
                     /\ name[i] = "."
                     /\ \A j \in i + 1 .. Len(name) : name[j] # "."
       IN  SubSeq(name, 1, last - 1)
  ELSE name

\* C25: looksLikeID(name) is true exactly when the name without its last
\* '.' and what follows it is not empty and holds decimal digits only.
C25_LooksLikeIDExact ==
  nameOut # << >> =>
    nameOut[1] =
      (/\ StemOf(nameIn) # << >>
       /\ \A i \in 1 .. Len(StemOf(nameIn)) :
            StemOf(nameIn)[i] \in {"0", "1", "2", "3", "4", "5", "6", "7", "8", "9"})

\* looksLikeID has returned true for a name whose extension it removed
C25_Witness ==
  /\ nameOut = << TRUE >>
  /\ \E i \in 1 .. Len(nameIn) : nameIn[i] = "."

InMemory ==
  { "map", "range", "send", "append", "remove", "close",
    "listenerMu.RLock", "listenerMu.RUnlock", "listenerMu.Unlock",
    "mu.Unlock", "mu.RUnlock" }

C23_NoSendOnClosed ==
  /\ [](\A g \in Goroutines :
          /\ pos[g] # Panicked
          /\ Instr(g) = "send" =>
               \A i \in 1 .. Len(loop[g]) :
                 ~closed[loop[g][i]] /\ IsListener(listeners, loop[g][i]))
  /\ [][\A ch \in Chans :
          (closed'[ch] /\ ~closed[ch]) =>
            \E g \in Goroutines :
              /\ pos[g].call = "Unsubscribe" /\ Instr(g) = "close"
              /\ target[g] = ch
              /\ listenerMu.w = g /\ listenerMu.locked /\ listenerMu.r = {}
              /\ ~IsListener(listeners, ch)]_vars

\* a publish is in its loop with a channel still to visit while the
\* Unsubscribe of that channel waits for d.listenerMu
C23_Witness ==
  \E g, h \in Goroutines :
    /\ Instr(g) = "send" /\ Holds(listenerMu, g)
    /\ pos[h].call = "Unsubscribe" /\ Instr(h) = "listenerMu.Lock"
    /\ listenerMu.w = h
    /\ \E i \in 1 .. Len(loop[g]) : loop[g][i] = target[h]

\* C26: a goroutine that holds or has asked for d.listenerMu never asks for
\* d.mu; the send of a publish can always be taken, whatever the channel
\* holds; while some call has not returned some goroutine can take a step;
\* a goroutine that is in no call holds no lock; and whenever calls are
\* under way, a state follows in which all of them have returned, so a
\* goroutine that holds a lock releases it.
C26_NoDeadlock ==
  /\ [](\A g \in Goroutines :
          /\ (Holds(listenerMu, g) \/ listenerMu.w = g)
               => Instr(g) \notin {"mu.Lock", "mu.RLock"}
          /\ Instr(g) = "send" => ENABLED Send(g)
          /\ pos[g] = Idle =>
               /\ ~Holds(mu, g) /\ mu.w # g
               /\ ~Holds(listenerMu, g) /\ listenerMu.w # g)
  /\ []((\E g \in Goroutines : pos[g] # Idle)
          => \E g \in Goroutines : ENABLED GoStep(g))
  /\ (\E g \in Goroutines : pos[g] # Idle)
       ~> (\A g \in Goroutines : pos[g] = Idle)

\* a publish holds d.mu and waits for d.listenerMu, which a Subscribe or
\* Unsubscribe holds, while a third goroutine waits for d.mu
C26_Witness ==
  \E g, h, k \in Goroutines :
    /\ Holds(mu, g) /\ Instr(g) = "listenerMu.RLock"
    /\ listenerMu.w = h /\ listenerMu.locked
    /\ Instr(k) \in {"mu.Lock", "mu.RLock"}

====
